---- MODULE Spec2Model ----
(***************************************************************************)
(* Meta-learning control core of mamlcon: the label randomizer, the        *)
(* indexer, the batch splitter, the class-incremental learners FSCL and    *)
(* OML (src/src/algorithms.py) and the Reptile outer loop.                 *)
(*                                                                         *)
(* Tensors of labels are sequences of integers.  An example of an episode  *)
(* is identified by its position in the batch, counted from 0 as torch     *)
(* does, so _inputs[indexes] is the sequence of positions itself and       *)
(* labels[indexes] is read through At.                                     *)
(***************************************************************************)
EXTENDS Integers, Sequences, FiniteSets, TLC

\* ------------------------------------------------------------------ bounds
MaxWay   == 4   \* largest n_way (classes per episode)
MaxStart == 2   \* largest n_classes_start
MaxAdd   == 2   \* largest n_class_additions
MaxShot  == 2   \* largest k_shot
MaxSteps == 1   \* largest training_steps / initial_training_steps

\* Raw label ids of an episode start at one of these values; 0 is the
\* contiguous 0..U-1 labelling, 1 a labelling that is not 0..U-1.
LabelOffsets == {0, 1}

\* ------------------------------------------------------- tensor primitives
Min(S) == CHOOSE x \in S : \A y \in S : x <= y
Max(S) == CHOOSE x \in S : \A y \in S : x >= y
Range(s) == {s[i] : i \in DOMAIN s}

RECURSIVE SortedSeq(_)
SortedSeq(S) == IF S = {} THEN <<>>
                ELSE LET m == Min(S) IN <<m>> \o SortedSeq(S \ {m})

\* faulty variant: the distinct values in descending order
unique_descending(t) ==
  LET up == SortedSeq(Range(t))
  IN [j \in 1..Len(up) |-> up[Len(up) + 1 - j]]

\* torch.unique(t): the distinct values, sorted ascending
unique(t) == SortedSeq(Range(t))

\* t[p] for a 0-based position p
At(t, p) == t[p + 1]

\* t[indexes] for a sequence of 0-based positions
Gather(t, indexes) == [j \in 1..Len(indexes) |-> At(t, indexes[j])]

\* Python slice s[a:b] with 0 <= a, 0 <= b (clamped to the length)
PySlice(s, a, b) ==
  LET hi == IF b < Len(s) THEN b ELSE Len(s)
  IN IF a >= hi THEN <<>> ELSE [j \in 1..(hi - a) |-> s[a + j]]

\* Python slice s[-m:] for m >= 0 (s[-0:] is the whole sequence)
PyTail(s, m) ==
  IF m = 0 \/ m >= Len(s) THEN s
  ELSE [j \in 1..m |-> s[Len(s) - m + j]]

\* Python slice s[start::k] for k >= 1
StrideFrom(s, start, k) ==
  IF start >= Len(s) THEN <<>>
  ELSE [j \in 1..(((Len(s) - start - 1) \div k) + 1) |-> s[start + (j - 1) * k + 1]]

\* Python slice s[::k]
Stride(s, k) == StrideFrom(s, 0, k)

RECURSIVE Cat(_)
\* torch.cat / torch.concat of a list of 1-d tensors
Cat(ts) == IF Len(ts) = 0 THEN <<>> ELSE Head(ts) \o Cat(Tail(ts))

\* torch.where(t == c)[0]: the 0-based positions holding c, ascending
where(t, c) ==
  LET hits == SortedSeq({i \in DOMAIN t : t[i] = c})
  IN [j \in 1..Len(hits) |-> hits[j] - 1]

\* torch.randperm(n): every permutation of 1..n is a possible outcome
randperm(n) == {f \in [1..n -> 1..n] : \A i, j \in 1..n : f[i] = f[j] => i = j}

\* ------------------------------------------------------ label randomizer
\* The converter is keyed by the index i of random_labels, not by a label
\* value, and the tensor is rewritten in place position by position: a label
\* that is not a key raises KeyError with the earlier positions rewritten.
return_random_labels(batch_labels, perm) ==
  LET unique_labels == unique(batch_labels)
      U == Len(unique_labels)
      random_labels == [i \in 1..U |-> unique_labels[perm[i]]]
      converter == [i \in 0..(U - 1) |-> random_labels[i + 1]]
      bad == {i \in DOMAIN batch_labels : batch_labels[i] \notin DOMAIN converter}
      stop == IF bad = {} THEN Len(batch_labels) + 1 ELSE Min(bad)
  IN [ok |-> bad = {},
      labels |-> [i \in DOMAIN batch_labels |->
                    IF i < stop THEN converter[batch_labels[i]] ELSE batch_labels[i]]]

\* ---------------------------------------------------------------- indexer
\* faulty variant: the concatenated positions are not interleaved
return_indexes_plain(batch_labels, classes) ==
  IF Len(classes) = 0 THEN [ok |-> FALSE, indexes |-> <<>>]
  ELSE [ok |-> TRUE,
        indexes |-> Cat([i \in 1..Len(classes) |-> where(batch_labels, classes[i])])]

\* torch.concat of an empty list raises, so an empty class list fails.
return_indexes(batch_labels, classes) ==
  IF Len(classes) = 0 THEN [ok |-> FALSE, indexes |-> <<>>]
  ELSE LET batch_indexes == Cat([i \in 1..Len(classes) |-> where(batch_labels, classes[i])])
       IN [ok |-> TRUE,
           indexes |-> StrideFrom(batch_indexes, 0, 2) \o StrideFrom(batch_indexes, 1, 2)]

\* ---------------------------------------------------------- batch splitter
\* Tensor.chunk(2): chunks of ceil(N/2); one chunk only when N = 1, and then
\* the two-name unpacking raises.
split_batch(t) ==
  LET n == Len(t)
      size == (n + 1) \div 2
  IN IF n = 1 THEN [ok |-> FALSE, support |-> <<>>, query |-> <<>>]
     ELSE [ok |-> TRUE, support |-> PySlice(t, 0, size), query |-> PySlice(t, size, n)]

\* ----------------------------------------------------- class-batch builder
\* FSCL.return_label_batches and OML.return_label_batches are the same text.
\* The batches before the remainder is handled:
initial_batches(unique_classes, n_classes_start, n_class_additions) ==
  LET U == Len(unique_classes)
      floor_additions == (U - n_classes_start) \div n_class_additions
      total_additions == IF U - n_classes_start >= 1 THEN floor_additions ELSE 1
  IN <<PySlice(unique_classes, 0, n_classes_start)>> \o
     [i \in 1..total_additions |->
        PySlice(unique_classes,
                n_classes_start + n_class_additions * (i - 1),
                n_classes_start + n_class_additions * i)]

\* faulty variant: the remainder classes are dropped
return_label_batches_dropping(batch_labels, n_classes_start, n_class_additions) ==
  initial_batches(unique(batch_labels), n_classes_start, n_class_additions)

\* total_missing is a difference of label values, used as a count of classes
return_label_batches(batch_labels, n_classes_start, n_class_additions) ==
  LET unique_classes == unique(batch_labels)
      classes == initial_batches(unique_classes, n_classes_start, n_class_additions)
      covered == Max(Range(Cat(classes)))
      highest == Max(Range(batch_labels))
      total_missing == highest - covered
      last == Len(classes)
  IN IF covered < highest
     THEN [classes EXCEPT ![last] = classes[last] \o PyTail(unique_classes, total_missing)]
     ELSE classes

\* ------------------------------------------------------------------ state
VARIABLES
  algorithm,              \* "FSCL" or "OML": the class-incremental learner built by main
  self,                   \* the learner's attributes set by __init__
  raw_labels,             \* the labels of the batch as the sampler delivered them
  labels,                 \* the labels tensor (rewritten in place by the randomizer)
  pc,                     \* position inside meta_learn
  err,                    \* the exception that ended the episode, "" if none
  class_batches,          \* list of class batches (sequences of class ids)
  batch_i,                \* 0-based index of the class batch to process next
  total_classes_present,  \* the head size
  support_inputs,         \* per class batch: the support half (positions)
  query_inputs,           \* per class batch: the query half (positions)
  quick_update_inputs,    \* per class batch: the examples kept for the quick update
  calls,                  \* the learner's forward passes, in order
  output,                 \* the local `output`: which forward pass it holds
  logging,                \* the metrics dict: key |-> forward pass it was computed from
  testing_inputs,         \* the capped final query set (positions)
  \* ---- Reptile instance
  reptile,                \* train_update_steps, initial_lr and the trainer's max_steps
  training,               \* self.training
  outer_steps,            \* self.outer_steps
  model_state,            \* self.model.state_dict(): parameter name |-> value
  old_weights,            \* the local old_weights of the running meta_learn
  inner_step,             \* the `step` of the fast-train loop
  rpc,                    \* position inside the Reptile step
  entry_state,            \* history: model_state when the running/last step began
  post_inner,             \* history: model_state after the last inner loop
  used_lr,                \* history: current_lr of the last training step
  train_calls,            \* history: training steps that returned
  n_calls,                \* history: steps that returned
  \* ---- main of train_cl.py
  cfg,                    \* the configuration: dataset, method and algorithm names
  mpc,                    \* position inside main
  datasets,               \* the dataset attributes WordData.setup has assigned
  branch,                 \* the branch of WordData.setup that was taken
  fatal                   \* the exception that ended main, "" if none

clVars == <<algorithm, self, raw_labels, labels, pc, err, class_batches, batch_i,
            total_classes_present, support_inputs, query_inputs, quick_update_inputs,
            calls, output, logging, testing_inputs>>

repVars == <<reptile, training, outer_steps, model_state, old_weights, inner_step,
             rpc, entry_state, post_inner, used_lr, train_calls, n_calls>>

mainVars == <<cfg, mpc, datasets, branch, fatal>>

vars == <<clVars, repVars, mainVars>>

\* The cap of the final query set: [:5] per class
TestCap == 5

NoOutput == [defined |-> FALSE, kind |-> "none", batch |-> 0]

\* An episode of U classes with `per` examples each, class by class
Episode(U, per, offset) == [i \in 1..(U * per) |-> offset + ((i - 1) \div per)]

\* Examples per class: k_shot support + k_shot query examples (the sampler is
\* built with K_shot = k_shot and include_query = True), or the two examples
\* per class of the specification's end-to-end scenario.
ExamplesPerClass(k_shot) == {2, 2 * k_shot}

MaxLongWay == 3   \* largest n_way of the episodes with long query halves

\* cfg.k_shot of the episodes with long query halves: the smallest value, and
\* the first one whose query half of a class is longer than the cap of the
\* final query set
LongShots == {1, TestCap + 1}

\* ------------------------------------------------- Reptile: parameter values
\* Parameter values and learning rates are exact rationals <<numerator,
\* denominator>> in lowest terms with a positive denominator.
Abs(x) == IF x < 0 THEN -x ELSE x

RECURSIVE GCD(_, _)
GCD(a, b) == IF b = 0 THEN a ELSE GCD(b, a % b)

Rat(n, d) ==
  LET g == GCD(Abs(n), Abs(d))
      sgn == IF d < 0 THEN -1 ELSE 1
  IN <<(sgn * n) \div g, (sgn * d) \div g>>

RAdd(x, y) == Rat(x[1] * y[2] + y[1] * x[2], x[2] * y[2])
RSub(x, y) == Rat(x[1] * y[2] - y[1] * x[2], x[2] * y[2])
RMul(x, y) == Rat(x[1] * y[1], x[2] * y[2])
RLeq(x, y) == x[1] * y[2] <= y[1] * x[2]

MaxCalls == 3   \* training/validation steps issued to one Reptile instance
MaxInner == 2   \* largest train_update_steps

\* the parameter names of the model's state dict
Names == {"w", "b"}

\* what one opt.step() of the inner optimizer may add to the parameters
Grads == {[w |-> <<1, 1>>, b |-> <<0, 1>>], [w |-> <<0, 1>>, b |-> <<-1, 1>>]}

\* optim_config['outer_learning_rate']
OuterLearningRates == {<<1, 1>>, <<1, 2>>}

\* trainer.max_steps: a configured number of steps, or -1, the value of a
\* Trainer built without max_steps (as main builds it, with max_epochs only)
TrainerMaxSteps == {-1, 2}

InitialWeights == [w |-> <<0, 1>>, b |-> <<1, 1>>]

ReptileIdle ==
  /\ reptile = [train_update_steps |-> 0, initial_lr |-> <<1, 1>>, max_steps |-> 1]
  /\ training = FALSE
  /\ outer_steps = 0
  /\ model_state = InitialWeights
  /\ old_weights = InitialWeights
  /\ inner_step = 0
  /\ rpc = "unused"
  /\ entry_state = InitialWeights
  /\ post_inner = InitialWeights
  /\ used_lr = <<0, 1>>
  /\ train_calls = 0
  /\ n_calls = 0

\* main is not followed
MainIdle ==
  /\ cfg = [dataset |-> "", method |-> "", algorithm |-> ""]
  /\ mpc = "unused"
  /\ datasets = {}
  /\ branch = ""
  /\ fatal = ""

\* A learner built by main with n_way in `ways` and k_shot in `shots`, about
\* to run meta_learn on an episode of the sampler.
EpisodeInit(ways, shots) ==
  /\ algorithm \in {"FSCL", "OML"}
  /\ self \in [n_way : ways,
               n_classes_start : 1..MaxStart,
               n_class_additions : 1..MaxAdd,
               k_shot : shots,
               training_steps : 0..MaxSteps,
               initial_training_steps : 0..MaxSteps,
               quick_adapt : BOOLEAN]
  /\ algorithm = "OML" => self.initial_training_steps = 0 /\ self.quick_adapt = FALSE
  /\ \E per \in ExamplesPerClass(self.k_shot), offset \in LabelOffsets :
       raw_labels = Episode(self.n_way, per, offset)
  /\ labels = raw_labels
  /\ pc = "randomize"
  /\ err = ""
  /\ class_batches = <<>>
  /\ batch_i = 0
  /\ total_classes_present = 0
  /\ support_inputs = <<>>
  /\ query_inputs = <<>>
  /\ quick_update_inputs = <<>>
  /\ calls = <<>>
  /\ output = NoOutput
  /\ logging = {}
  /\ testing_inputs = <<>>
  /\ ReptileIdle
  /\ MainIdle

Init == EpisodeInit(1..MaxWay, 1..MaxShot)

\* the episodes with long query halves
InitLong == EpisodeInit(1..MaxLongWay, LongShots)

\* ------------------------------------------------ FSCL / OML meta_learn
\* labels = return_random_labels(labels): the first statement of meta_learn.
\* The permutation drawn is the only choice of the episode.
RandomizeLabels ==
  /\ pc = "randomize"
  /\ \E perm \in randperm(Len(unique(labels))) :
       LET r == return_random_labels(labels, perm)
       IN /\ labels' = r.labels
          /\ pc' = IF r.ok THEN "learn" ELSE "error"
          /\ err' = IF r.ok THEN "" ELSE "KeyError"
  /\ UNCHANGED <<algorithm, self, raw_labels, class_batches, batch_i,
                 total_classes_present, support_inputs, query_inputs,
                 quick_update_inputs, calls, output, logging, testing_inputs, repVars, mainVars>>

\* The locals of meta_learn as a record; `labels`, `self` and `algorithm` are
\* read from the state (the labels are the randomized ones).
Locals ==
  [err |-> "", class_batches |-> <<>>, batch_i |-> 0, total_classes_present |-> 0,
   support_inputs |-> <<>>, query_inputs |-> <<>>, quick_update_inputs |-> <<>>,
   calls |-> <<>>, output |-> NoOutput, logging |-> {}, testing_inputs |-> <<>>]

\* faulty variant: training_steps inner steps on every class batch
StepsFor_uniform(i) == self.training_steps

\* number of inner steps on class batch i
StepsFor(i) ==
  IF algorithm = "FSCL" /\ i = 0 THEN self.initial_training_steps
  ELSE self.training_steps

\* faulty variant: the head is reset to the size of the new class batch
NextHead_reset(total, class_batch) == Len(class_batch)

\* the head size once class_batch is introduced
NextHead(total, class_batch) == total + Len(class_batch)

\* faulty variant: the first k_shot examples of the support half are kept
QuickSelect_prefix(support, k_shot) == PySlice(support, 0, k_shot)

\* the examples of a support half kept for the quick update
QuickSelect(support, k_shot) == Stride(support, k_shot)

\* the n of the key step_{n}_inner_accuracy written for class batch i
LogIndex(i) == IF algorithm = "FSCL" THEN i ELSE i + 1

\* one forward pass of the learner; adapt tells whether learner.adapt follows
Forward(kind, i, head, inputs, adapt) ==
  [kind |-> kind, batch |-> i, head |-> head, inputs |-> inputs, adapt |-> adapt]

\* The number of columns of the logits of a forward pass: FSCLModel.forward
\* concatenates the first total_classes_present heads, OMLModel.forward all
\* the n_way heads it was built with, whatever head size it is passed.
LogitsWidth(call) == IF algorithm = "FSCL" THEN call.head ELSE self.n_way

\* One class batch: index, split, keep the query half and the quick-update
\* examples, grow the head, run the inner steps, log the inner accuracy.
\* OML grows the head before it indexes, FSCL after it has split.  The
\* accuracy is computed from the local `output`, which is unbound when no
\* forward pass has run yet (NameError).
process_batch(m) ==
  LET i == m.batch_i
      class_batch == m.class_batches[i + 1]
      r == return_indexes(labels, class_batch)
      s == split_batch(r.indexes)
      head == NextHead(m.total_classes_present, class_batch)
      n == StepsFor(i)
      out == IF n > 0 THEN [defined |-> TRUE, kind |-> "inner", batch |-> i]
             ELSE m.output
      trained ==
        [m EXCEPT !.support_inputs = Append(@, s.support),
                  !.query_inputs = Append(@, s.query),
                  !.quick_update_inputs =
                     IF algorithm = "FSCL"
                     THEN Append(@, QuickSelect(s.support, self.k_shot))
                     ELSE @,
                  !.total_classes_present = head,
                  !.calls = @ \o [k \in 1..n |-> Forward("inner", i, head, s.support, TRUE)],
                  !.output = out]
  IN IF ~(r.ok /\ s.ok)
     THEN [m EXCEPT !.err = IF r.ok THEN "ValueError" ELSE "RuntimeError",
                    !.total_classes_present = IF algorithm = "OML" THEN head ELSE @]
     ELSE IF ~out.defined
     THEN [trained EXCEPT !.err = "NameError"]
     ELSE [trained EXCEPT
             !.logging = @ \cup {[key |-> "step_inner_accuracy", n |-> LogIndex(i),
                                  kind |-> out.kind, batch |-> out.batch]},
             !.batch_i = i + 1]

RECURSIVE class_batch_loop(_)
\* the class batches in curriculum order, until one raises
class_batch_loop(m) ==
  IF m.err # "" \/ m.batch_i = Len(m.class_batches) THEN m
  ELSE class_batch_loop(process_batch(m))

\* FSCL only: one adaptation step over the whole quick-update buffer
quick_update(m) ==
  IF algorithm = "FSCL" /\ self.quick_adapt
  THEN [m EXCEPT
          !.calls = Append(@, Forward("quick", m.batch_i - 1, m.total_classes_present,
                                      Cat(m.quick_update_inputs), TRUE)),
          !.output = [defined |-> TRUE, kind |-> "quick", batch |-> m.batch_i - 1],
          !.logging = @ \cup {[key |-> "quick_update_inner_accuracy", n |-> 0,
                               kind |-> "quick", batch |-> m.batch_i - 1]}]
  ELSE m

\* faulty variant: every query example is kept
testing_set_uncapped(all_query, batch_labels) ==
  LET query_labels == Gather(batch_labels, all_query)
      cs == unique(query_labels)
      testing_indexes == Cat([j \in 1..Len(cs) |-> where(query_labels, cs[j])])
  IN Gather(all_query, testing_indexes)

\* the final query set: for every class of the accumulated query labels, its
\* first TestCap examples
testing_set(all_query, batch_labels) ==
  LET query_labels == Gather(batch_labels, all_query)
      cs == unique(query_labels)
      testing_indexes == Cat([j \in 1..Len(cs) |->
                                PySlice(where(query_labels, cs[j]), 0, TestCap)])
  IN Gather(all_query, testing_indexes)

\* the evaluation of the adapted learner on the capped query set
query_eval(m) ==
  LET t == testing_set(Cat(m.query_inputs), labels)
  IN [m EXCEPT
        !.testing_inputs = t,
        !.calls = Append(@, Forward("query", m.batch_i - 1, m.total_classes_present,
                                    t, FALSE)),
        !.output = [defined |-> TRUE, kind |-> "query", batch |-> m.batch_i - 1],
        !.logging = @ \cup {[key |-> k, n |-> 0, kind |-> "query", batch |-> m.batch_i - 1] :
                              k \in {"query_error", "query_accuracy"}}]

\* meta_learn after the labels are randomized
meta_learn(m) ==
  LET built == [m EXCEPT !.class_batches =
                  return_label_batches(labels, self.n_classes_start, self.n_class_additions)]
      looped == class_batch_loop(built)
  IN IF looped.err # "" THEN looped ELSE query_eval(quick_update(looped))

\* The rest of meta_learn, which draws nothing: it returns the metrics or
\* raises.
LearnEpisode ==
  /\ pc = "learn"
  /\ \E m \in {meta_learn(Locals)} :
       /\ err' = m.err
       /\ pc' = IF m.err = "" THEN "done" ELSE "error"
       /\ class_batches' = m.class_batches
       /\ batch_i' = m.batch_i
       /\ total_classes_present' = m.total_classes_present
       /\ support_inputs' = m.support_inputs
       /\ query_inputs' = m.query_inputs
       /\ quick_update_inputs' = m.quick_update_inputs
       /\ calls' = m.calls
       /\ output' = m.output
       /\ logging' = m.logging
       /\ testing_inputs' = m.testing_inputs
  /\ UNCHANGED <<algorithm, self, raw_labels, labels, repVars, mainVars>>

Next ==
  \/ RandomizeLabels
  \/ LearnEpisode

Spec == Init /\ [][Next]_vars

SpecLong == InitLong /\ [][Next]_vars

\* ------------------------------------------------------- class batches
Injective(s) == \A i, j \in DOMAIN s : s[i] = s[j] => i = j

\* number of distinct classes of the episode
DistinctClasses == Cardinality(Range(labels))

\* return_label_batches has returned
BatchesBuilt == class_batches # <<>>

\* C1: when the episode has at least n_classes_start distinct classes, the
\* class batches returned by return_label_batches contain no class twice, are
\* pairwise disjoint, and their union is exactly the set of labels of the
\* episode.
C1_BatchesPartitionLabels ==
  (BatchesBuilt /\ DistinctClasses >= self.n_classes_start) =>
    /\ \A b \in DOMAIN class_batches : Injective(class_batches[b])
    /\ \A a, b \in DOMAIN class_batches :
         a # b => Range(class_batches[a]) \cap Range(class_batches[b]) = {}
    /\ Range(Cat(class_batches)) = Range(labels)

\* C1 witness: batches were built for an episode with more than
\* n_classes_start classes whose remainder went to the last batch.
C1_Witness ==
  /\ BatchesBuilt
  /\ DistinctClasses > self.n_classes_start
  /\ Len(class_batches) >= 2
  /\ Len(class_batches[Len(class_batches)]) > self.n_class_additions

\* the sizes the curriculum states: n_classes_start classes first (all U when
\* U < n_classes_start), n_class_additions classes in every later batch, the
\* left-over classes appended to the last batch
CurriculumSizes ==
  LET U == DistinctClasses
      B == Len(class_batches)
      left_over == IF U >= self.n_classes_start
                   THEN (U - self.n_classes_start) % self.n_class_additions
                   ELSE 0
  IN /\ Len(class_batches[1]) =
          IF U < self.n_classes_start THEN U ELSE self.n_classes_start
     /\ \A i \in 2..B :
          Len(class_batches[i]) =
            IF i = B THEN self.n_class_additions + left_over
            ELSE self.n_class_additions

\* C2 (as claimed): the first class batch has exactly n_classes_start classes
\* (all U when U < n_classes_start), every later batch has n_class_additions
\* classes, the classes left over when U - n_classes_start is no multiple of
\* n_class_additions are appended to the last batch, and four classes with
\* n_classes_start = 2, n_class_additions = 1 give [{0,1},{2},{3}].
C2_BatchSizesAsClaimed ==
  BatchesBuilt =>
    /\ CurriculumSizes
    /\ (DistinctClasses = 4 /\ self.n_classes_start = 2 /\ self.n_class_additions = 1)
         => class_batches = << <<0, 1>>, <<2>>, <<3>> >>

\* ---------------------------------------------------- label randomizer
\* C3 (as claimed): for any integer label sequence return_random_labels
\* completes, keeps the length, yields exactly the set of input values, and
\* two positions share an output value iff they shared an input value.
C3_RandomLabelsBijection ==
  (algorithm \in {"FSCL", "OML"} /\ pc # "randomize") =>
    /\ err # "KeyError"
    /\ Len(labels) = Len(raw_labels)
    /\ Range(labels) = Range(raw_labels)
    /\ \A i, j \in DOMAIN labels :
         (labels[i] = labels[j]) <=> (raw_labels[i] = raw_labels[j])

\* ------------------------------------------------------------ head size
RECURSIVE SumLen(_, _)
\* number of classes in the first n class batches
SumLen(batches, n) == IF n = 0 THEN 0 ELSE Len(batches[n]) + SumLen(batches, n - 1)

\* C4: the head size passed to the model while class batch i is processed is
\* the number of classes of batches 0..i, head sizes never decrease along the
\* episode, and no head size exceeds n_way.
C4_HeadSize ==
  /\ \A k \in DOMAIN calls :
       /\ calls[k].kind = "inner" =>
            calls[k].head = SumLen(class_batches, calls[k].batch + 1)
       /\ calls[k].head <= self.n_way
       /\ \A l \in DOMAIN calls : k < l => calls[k].head <= calls[l].head
  /\ total_classes_present <= self.n_way
  /\ total_classes_present =
       SumLen(class_batches, Len(support_inputs) +
                (IF algorithm = "OML" /\ err = "RuntimeError" THEN 1 ELSE 0))

\* C4 witness: a finished episode whose third class batch was trained on with
\* a head larger than the one of the first batch.
C4_Witness ==
  /\ pc = "done"
  /\ \E k, l \in DOMAIN calls :
       /\ calls[k].kind = "inner" /\ calls[k].batch = 0
       /\ calls[l].kind = "inner" /\ calls[l].batch = 2
       /\ calls[k].head < calls[l].head

\* ------------------------------------------------- indexer and splitter
\* number of examples of class c among the positions ps
CountOf(ps, c) == Cardinality({j \in DOMAIN ps : At(labels, ps[j]) = c})

\* number of examples of class c in the episode
ClassCount(c) == Cardinality({i \in DOMAIN labels : labels[i] = c})

\* C5: when every class of a class list occurs an even number of times and
\* all of them equally often, return_indexes followed by split_batch gives a
\* support half and a query half that each hold exactly half of the positions
\* of every listed class, and no position is repeated or lost.
C5_HalfOfEveryClass ==
  \A b \in DOMAIN support_inputs :
    LET classes == class_batches[b]
    IN (\A k \in DOMAIN classes :
          /\ ClassCount(classes[k]) % 2 = 0
          /\ ClassCount(classes[k]) = ClassCount(classes[1]))
       =>
       /\ \A k \in DOMAIN classes :
            /\ 2 * CountOf(support_inputs[b], classes[k]) = ClassCount(classes[k])
            /\ 2 * CountOf(query_inputs[b], classes[k]) = ClassCount(classes[k])
       /\ Injective(support_inputs[b] \o query_inputs[b])
       /\ Range(support_inputs[b] \o query_inputs[b]) =
            {p \in 0..(Len(labels) - 1) : \E k \in DOMAIN classes : At(labels, p) = classes[k]}

\* C5 witness: a class batch of two classes with four examples each was
\* indexed and split.
C5_Witness ==
  \E b \in DOMAIN support_inputs :
    /\ Len(class_batches[b]) >= 2
    /\ \A c \in Range(class_batches[b]) : ClassCount(c) = 4
    /\ Len(support_inputs[b]) = 2 * Len(class_batches[b])

\* ---------------------------------------------------- quick-update buffer
\* the class-batch loop of an FSCL episode has ended
LoopEnded ==
  algorithm = "FSCL" /\ class_batches # <<>> /\ batch_i = Len(class_batches)

\* labels of the examples in the quick-update buffer
BufferLabels == Gather(labels, Cat(quick_update_inputs))

\* the buffer holds exactly one example of every class introduced, none twice
OnePerClass ==
  /\ Injective(Cat(quick_update_inputs))
  /\ Injective(BufferLabels)
  /\ Range(BufferLabels) = Range(Cat(class_batches))

\* every class of the episode has k_shot support and k_shot query examples
TwoKShotPerClass ==
  \A c \in Range(labels) : ClassCount(c) = 2 * self.k_shot

ClassesSeen == Range(Cat(class_batches))

\* the forward passes of the given kind
CallsOf(kind) == {k \in DOMAIN calls : calls[k].kind = kind}

\* C11: in an episode that returns, the final query set contains, for every
\* class introduced in any class batch, exactly min(5, q) examples, q being the
\* number of that class's examples in the accumulated query halves; every seen
\* class is present, none has more than 5 examples, no example is taken twice,
\* and the set is evaluated once, last, with the final head size.
C11_FinalQuerySet ==
  pc = "done" =>
    /\ \A c \in ClassesSeen :
         LET q == CountOf(Cat(query_inputs), c)
             t == CountOf(testing_inputs, c)
         IN /\ t = Min({TestCap, q})
            /\ t >= 1
            /\ t <= TestCap
    /\ Injective(testing_inputs)
    /\ Range(testing_inputs) \subseteq Range(Cat(query_inputs))
    /\ CallsOf("query") = {Len(calls)}
    /\ calls[Len(calls)].inputs = testing_inputs
    /\ calls[Len(calls)].head = total_classes_present
    /\ total_classes_present = SumLen(class_batches, Len(class_batches))

\* C11 witness: an episode of several class batches returned, and a class had
\* more than 5 examples in the accumulated query halves.
C11_Witness ==
  /\ pc = "done"
  /\ Len(class_batches) >= 2
  /\ \E c \in ClassesSeen : CountOf(Cat(query_inputs), c) > TestCap
  /\ Len(testing_inputs) = TestCap * Cardinality(ClassesSeen)

\* -------------------------------------------------------- emitted metrics
\* the inner-accuracy entries of the metrics dict
StepEntries == {e \in logging : e.key = "step_inner_accuracy"}

\* an FSCL meta_learn has ended, and not for a reason of the labels or of the
\* class batches (a label that is no key, an empty or unsplittable batch);
\* the class batches have the sizes the curriculum states
FSCLEnded ==
  /\ algorithm = "FSCL"
  /\ pc \in {"done", "error"}
  /\ err \notin {"KeyError", "RuntimeError", "ValueError"}
  /\ CurriculumSizes

\* C13 (as claimed): for any non-negative initial_training_steps and
\* training_steps, an FSCL episode with B class batches returns exactly one
\* inner-accuracy entry per class-batch index 0..B-1, each computed from a
\* forward pass over that batch's own support set, plus query_error and
\* query_accuracy, and quick_update_inner_accuracy only when quick_adapt is
\* enabled.
C13_MetricsAsClaimed ==
  FSCLEnded =>
    /\ pc = "done"
    /\ {e.n : e \in StepEntries} = 0..(Len(class_batches) - 1)
    /\ Cardinality(StepEntries) = Len(class_batches)
    /\ \A e \in StepEntries : e.kind = "inner" /\ e.batch = e.n
    /\ {e.key : e \in logging} =
         {"step_inner_accuracy", "query_error", "query_accuracy"} \cup
         (IF self.quick_adapt THEN {"quick_update_inner_accuracy"} ELSE {})

\* ------------------------------------------------- adaptation sequence
\* the forward passes followed by learner.adapt
AdaptCalls == {k \in DOMAIN calls : calls[k].adapt}

\* the inner steps on class batch i (counted from 0)
InnerCalls(i) == {k \in CallsOf("inner") : calls[k].batch = i}

\* C14: in an FSCL episode with B class batches that returns, the learner
\* receives its adapt calls in this order and number: initial_training_steps on
\* the first batch's support set, then training_steps on each of the B-1 later
\* batches in curriculum order, then exactly one more over the whole
\* quick-update buffer if and only if quick_adapt is enabled; the final query
\* evaluation comes after all of them and performs no adapt call.
C14_AdaptationSequence ==
  (algorithm = "FSCL" /\ pc = "done") =>
    LET B == Len(class_batches)
    IN /\ \A i \in 0..(B - 1) :
            /\ Cardinality(InnerCalls(i)) =
                 IF i = 0 THEN self.initial_training_steps ELSE self.training_steps
            /\ \A k \in InnerCalls(i) :
                 calls[k].inputs = support_inputs[i + 1] /\ calls[k].adapt
       /\ \A k \in CallsOf("inner") : calls[k].batch \in 0..(B - 1)
       /\ \A k, l \in CallsOf("inner") : k < l => calls[k].batch <= calls[l].batch
       /\ Cardinality(CallsOf("quick")) = IF self.quick_adapt THEN 1 ELSE 0
       /\ \A k \in CallsOf("quick") :
            /\ calls[k].inputs = Cat(quick_update_inputs)
            /\ calls[k].adapt
            /\ \A l \in CallsOf("inner") : l < k
       /\ CallsOf("query") = {Len(calls)}
       /\ AdaptCalls = DOMAIN calls \ {Len(calls)}
       /\ DOMAIN calls = CallsOf("inner") \cup CallsOf("quick") \cup CallsOf("query")

\* C14 witness: an FSCL episode of three or more class batches returned with
\* quick_adapt enabled after inner steps on the first and on the later batches.
C14_Witness ==
  /\ algorithm = "FSCL" /\ pc = "done"
  /\ Len(class_batches) >= 3
  /\ self.quick_adapt
  /\ self.initial_training_steps >= 1
  /\ self.training_steps >= 1
  /\ Len(calls) = self.initial_training_steps
                    + (Len(class_batches) - 1) * self.training_steps + 2

\* ------------------------------------------------- labels fit the head
\* the labels fed to the loss with the logits of a forward pass
LabelsOf(call) == Gather(labels, call.inputs)

\* C16: in FSCL.meta_learn and OML.meta_learn, for any episode whose labels are
\* 0..U-1 and whose class batches are built, every label fed to the loss with
\* logits of head size h (each inner step on a class batch's support set, the
\* FSCL quick-update step, the final query evaluation) is an integer in
\* 0..h-1, h being the head size passed to the model and also the number of
\* columns of the logits.
C16_LabelsFitHead ==
  \A k \in DOMAIN calls :
    /\ calls[k].head <= LogitsWidth(calls[k])
    /\ \A j \in DOMAIN calls[k].inputs :
         LabelsOf(calls[k])[j] \in 0..(calls[k].head - 1)

\* C16 witness: an episode returned (with the quick update when it is an FSCL
\* episode) after an inner step on a later class batch whose head is not yet
\* the full one and whose support set holds the largest label that head admits.
C16_Witness ==
  /\ pc = "done"
  /\ algorithm = "FSCL" => self.quick_adapt
  /\ \E k \in CallsOf("inner") :
       /\ calls[k].batch >= 1
       /\ calls[k].head < self.n_way
       /\ calls[k].head - 1 \in Range(LabelsOf(calls[k]))

\* ---------------------------------------------------------------- Reptile
\* No episode is run by a class-incremental learner.
NoEpisode ==
  /\ self = [n_way |-> 1, n_classes_start |-> 1, n_class_additions |-> 1,
             k_shot |-> 1, training_steps |-> 0, initial_training_steps |-> 0,
             quick_adapt |-> FALSE]
  /\ raw_labels = <<>>
  /\ labels = <<>>
  /\ pc = "unused"
  /\ err = ""
  /\ class_batches = <<>>
  /\ batch_i = 0
  /\ total_classes_present = 0
  /\ support_inputs = <<>>
  /\ query_inputs = <<>>
  /\ quick_update_inputs = <<>>
  /\ calls = <<>>
  /\ output = NoOutput
  /\ logging = {}
  /\ testing_inputs = <<>>

\* No class-incremental learner runs beside the Reptile instance.
ContinualIdle ==
  /\ algorithm = "Reptile"
  /\ NoEpisode

InitReptile ==
  /\ ContinualIdle
  /\ reptile \in [train_update_steps : 0..MaxInner,
                  initial_lr : OuterLearningRates,
                  max_steps : TrainerMaxSteps]
  /\ training = FALSE
  /\ outer_steps = 0
  /\ model_state = InitialWeights
  /\ old_weights = InitialWeights
  /\ inner_step = 0
  /\ rpc = "idle"
  /\ entry_state = InitialWeights
  /\ post_inner = InitialWeights
  /\ used_lr = <<0, 1>>
  /\ train_calls = 0
  /\ n_calls = 0
  /\ MainIdle

\* self.initial_lr * (1 - self.outer_steps / self.trainer.max_steps)
current_lr(initial_lr, k, max_steps) ==
  RMul(initial_lr, RSub(<<1, 1>>, Rat(k, max_steps)))

\* faulty variant: the interpolation starts from the adapted weights
interpolate_from_new(old, new, lr) ==
  [name \in DOMAIN old |-> RAdd(new[name], RMul(RSub(new[name], old[name]), lr))]

\* {name : old_weights[name] + (new_weights[name] - old_weights[name]) * current_lr}
interpolate(old, new, lr) ==
  [name \in DOMAIN old |-> RAdd(old[name], RMul(RSub(new[name], old[name]), lr))]

\* faulty variant: evaluation mode keeps the adapted parameters
outer_update_no_restore(is_training, old, live, lr, k) ==
  IF is_training
  THEN [state |-> interpolate(old, live, lr), outer_steps |-> k + 1]
  ELSE [state |-> live, outer_steps |-> k]

\* faulty variant: the counter is incremented outside the training branch
outer_update_always_counts(is_training, old, live, lr, k) ==
  IF is_training
  THEN [state |-> interpolate(old, live, lr), outer_steps |-> k + 1]
  ELSE [state |-> old, outer_steps |-> k + 1]

\* The end of Reptile.meta_learn: what is loaded into the model and what
\* outer_steps becomes.  `live` is the model's state dict after the inner
\* loop (new_weights is that dict itself), `old` is the deep copy taken
\* before it.
outer_update(is_training, old, live, lr, k) ==
  IF is_training
  THEN [state |-> interpolate(old, live, lr), outer_steps |-> k + 1]
  ELSE [state |-> old, outer_steps |-> k]

\* training_step: self.training = True, then meta_learn up to the snapshot
TrainingStep ==
  /\ rpc = "idle"
  /\ n_calls < MaxCalls
  /\ training' = TRUE
  /\ old_weights' = model_state
  /\ entry_state' = model_state
  /\ inner_step' = 0
  /\ rpc' = "fast_train"
  /\ UNCHANGED <<reptile, outer_steps, model_state, post_inner, used_lr,
                 train_calls, n_calls, clVars, mainVars>>

\* validation_step: self.training = False, then meta_learn up to the snapshot
ValidationStep ==
  /\ rpc = "idle"
  /\ n_calls < MaxCalls
  /\ training' = FALSE
  /\ old_weights' = model_state
  /\ entry_state' = model_state
  /\ inner_step' = 0
  /\ rpc' = "fast_train"
  /\ UNCHANGED <<reptile, outer_steps, model_state, post_inner, used_lr,
                 train_calls, n_calls, clVars, mainVars>>

\* one iteration of the fast-train loop: opt.step() on the live model
InnerStep ==
  /\ rpc = "fast_train"
  /\ inner_step < reptile.train_update_steps
  /\ \E g \in Grads :
       model_state' = [name \in Names |-> RAdd(model_state[name], g[name])]
  /\ inner_step' = inner_step + 1
  /\ UNCHANGED <<reptile, training, outer_steps, old_weights, rpc, entry_state,
                 post_inner, used_lr, train_calls, n_calls, clVars, mainVars>>

\* query evaluation, then interpolation (training) or restore (evaluation)
OuterUpdate ==
  /\ rpc = "fast_train"
  /\ inner_step = reptile.train_update_steps
  /\ LET lr == current_lr(reptile.initial_lr, outer_steps, reptile.max_steps)
         r == outer_update(training, old_weights, model_state, lr, outer_steps)
     IN /\ model_state' = r.state
        /\ outer_steps' = r.outer_steps
        /\ used_lr' = IF training THEN lr ELSE used_lr
  /\ post_inner' = model_state
  /\ train_calls' = IF training THEN train_calls + 1 ELSE train_calls
  /\ n_calls' = n_calls + 1
  /\ rpc' = "idle"
  /\ UNCHANGED <<reptile, training, old_weights, inner_step, entry_state, clVars, mainVars>>

\* the step is abandoned before it returns (an interrupt, or an exception of
\* the forward pass, the loss or the query evaluation)
Abandon ==
  /\ rpc = "fast_train"
  /\ rpc' = "abandoned"
  /\ UNCHANGED <<reptile, training, outer_steps, model_state, old_weights,
                 inner_step, entry_state, post_inner, used_lr, train_calls,
                 n_calls, clVars, mainVars>>

NextReptile ==
  \/ TrainingStep
  \/ ValidationStep
  \/ InnerStep
  \/ OuterUpdate
  \/ Abandon

SpecReptile == InitReptile /\ [][NextReptile]_vars

\* a step has returned, and it was a validation step / a training step
ValidationReturned == rpc = "idle" /\ n_calls > 0 /\ ~training
TrainingReturned == rpc = "idle" /\ n_calls > 0 /\ training

\* C6: after Reptile.meta_learn returns in evaluation mode, every entry of the
\* model's parameter dict is what it was before the call, whatever the inner
\* steps did and whatever calls came before.
C6_EvalRestoresWeights ==
  ValidationReturned => \A name \in Names : model_state[name] = entry_state[name]

\* C6 witness: a validation step that followed another step returned after
\* its inner loop had changed the parameters.
C6_Witness ==
  /\ ValidationReturned
  /\ n_calls >= 2
  /\ post_inner # entry_state

\* C7: after a training step, with W0 the parameters before the inner loop, W1
\* the parameters after it and L the current learning rate of the call, the
\* stored parameters are W0 + (W1 - W0) * L for every name; L = 0 leaves W0
\* and L = 1 leaves W1.
C7_Interpolation ==
  TrainingReturned =>
    \A name \in Names :
      /\ RSub(model_state[name], entry_state[name]) =
           RMul(RSub(post_inner[name], entry_state[name]), used_lr)
      /\ used_lr = <<0, 1>> => model_state[name] = entry_state[name]
      /\ used_lr = <<1, 1>> => model_state[name] = post_inner[name]

\* C7 witness: a training step returned with a learning rate strictly between
\* 0 and 1 after its inner loop had changed the parameters.
C7_Witness ==
  /\ TrainingReturned
  /\ used_lr = <<1, 2>>
  /\ post_inner # entry_state
  /\ model_state # post_inner
  /\ model_state # entry_state

\* C8: outer_steps starts at 0, grows by one in every training step, is left
\* alone by every validation step: it is always the number of training steps
\* that have returned.
C8_OuterStepsCountsTraining ==
  /\ outer_steps = train_calls
  /\ outer_steps >= 0
  /\ outer_steps <= n_calls

\* C8 witness: a validation step returned after a training step had.
C8_Witness ==
  /\ ValidationReturned
  /\ train_calls >= 1
  /\ n_calls > train_calls

\* C9 (as claimed): a step abandoned before it returns leaves the persistent
\* model parameters exactly as they were before the step.
C9_AbandonLeavesWeights ==
  rpc = "abandoned" => model_state = entry_state

\* C15 (as claimed): over any sequence of training calls, the rate used in the
\* k-th training call (k from 0) is initial_lr * (1 - k / max_steps); it starts
\* at the initial outer learning rate, is zero at k = max_steps, lies within
\* [0, initial_lr] for every training call the trainer can issue (every call
\* when the trainer has no step limit, the calls up to k = max_steps
\* otherwise), and never increases from one training call to the next.
C15_ScheduleAsClaimed ==
  /\ [](TrainingReturned =>
          LET k == outer_steps - 1
          IN /\ used_lr = current_lr(reptile.initial_lr, k, reptile.max_steps)
             /\ k = 0 => used_lr = reptile.initial_lr
             /\ k = reptile.max_steps => used_lr = <<0, 1>>
             /\ (reptile.max_steps < 0 \/ k <= reptile.max_steps) =>
                  (RLeq(<<0, 1>>, used_lr) /\ RLeq(used_lr, reptile.initial_lr)))
  /\ [][(train_calls >= 1 /\ train_calls' = train_calls + 1) =>
          RLeq(used_lr', used_lr)]_vars

\* ------------------------------------------------------ main of train_cl.py
\* the names the assert of WordData.__init__ lets through
AcceptedDatasets ==
  {"flickr8k", "google_commands", "fluent", "google_commands_digit",
   "google_commands_command"}

\* the names whose branch of WordData.setup assigns the two datasets
LoadingBranches ==
  {"flickr8k", "google_commands", "google_commands_digit", "google_commands_commands"}

\* cfg.dataset, cfg.method, cfg.algorithm: every name the code mentions and
\* one it does not
DatasetNames == AcceptedDatasets \cup LoadingBranches \cup {"librispeech"}
MethodNames == {"maml", "reptile", "protonet"}
AlgorithmNames == {"FSCL", "OML", "ANML"}

\* WordData.setup: the if/elif chain, then self.train_dataset.labels, which
\* raises AttributeError when no branch has assigned the datasets
setup(name) ==
  IF name \in LoadingBranches
  THEN [branch |-> name, datasets |-> {"train_dataset", "valiadation_dataset"},
        fatal |-> ""]
  ELSE IF name = "fluent"
  THEN [branch |-> "fluent", datasets |-> {}, fatal |-> "NotImplementedError"]
  ELSE [branch |-> "none", datasets |-> {}, fatal |-> "AttributeError"]

\* The two if statements of main that build the learner: the local
\* `algorithm` stays unbound when neither if is taken, and the elif of the
\* second if raises for method reptile.
build(method, name) ==
  LET first == IF method = "maml" /\ name = "FSCL" THEN "FSCL" ELSE "unbound"
  IN IF method = "maml" /\ name = "OML" THEN [algorithm |-> "OML", fatal |-> ""]
     ELSE IF method = "reptile" THEN [algorithm |-> first, fatal |-> "NotImplementedError"]
     ELSE [algorithm |-> first, fatal |-> ""]

InitMain ==
  /\ algorithm = "unbound"
  /\ NoEpisode
  /\ ReptileIdle
  /\ cfg \in [dataset : DatasetNames, method : MethodNames, algorithm : AlgorithmNames]
  /\ mpc = "WordData"
  /\ datasets = {}
  /\ branch = ""
  /\ fatal = ""

episodeVars == <<self, raw_labels, labels, pc, err, class_batches, batch_i,
                 total_classes_present, support_inputs, query_inputs,
                 quick_update_inputs, calls, output, logging, testing_inputs>>

\* data = WordData(cfg): the assert of the constructor
ConstructWordData ==
  /\ mpc = "WordData"
  /\ IF cfg.dataset \in AcceptedDatasets
     THEN mpc' = "setup" /\ fatal' = ""
     ELSE mpc' = "fatal" /\ fatal' = "AssertionError"
  /\ UNCHANGED <<cfg, datasets, branch, algorithm, episodeVars, repVars>>

\* data.setup()
Setup ==
  /\ mpc = "setup"
  /\ LET r == setup(cfg.dataset)
     IN /\ branch' = r.branch
        /\ datasets' = r.datasets
        /\ fatal' = r.fatal
        /\ mpc' = IF r.fatal = "" THEN "build" ELSE "fatal"
  /\ UNCHANGED <<cfg, algorithm, episodeVars, repVars>>

\* the learner is built, or main raises
BuildAlgorithm ==
  /\ mpc = "build"
  /\ LET r == build(cfg.method, cfg.algorithm)
     IN /\ algorithm' = r.algorithm
        /\ fatal' = r.fatal
        /\ mpc' = IF r.fatal = "" THEN "trainer" ELSE "fatal"
  /\ UNCHANGED <<cfg, datasets, branch, episodeVars, repVars>>

\* wandb.login, the logger, the callbacks and pl.Trainer
MakeTrainer ==
  /\ mpc = "trainer"
  /\ mpc' = "fit"
  /\ UNCHANGED <<cfg, datasets, branch, fatal, algorithm, episodeVars, repVars>>

\* trainer.fit(algorithm, data): reading an unbound local raises
Fit ==
  /\ mpc = "fit"
  /\ IF algorithm = "unbound"
     THEN mpc' = "fatal" /\ fatal' = "UnboundLocalError"
     ELSE mpc' = "fitting" /\ fatal' = ""
  /\ UNCHANGED <<cfg, datasets, branch, algorithm, episodeVars, repVars>>

NextMain ==
  \/ ConstructWordData
  \/ Setup
  \/ BuildAlgorithm
  \/ MakeTrainer
  \/ Fit

SpecMain == InitMain /\ [][NextMain]_vars

\* the method and algorithm names select no algorithm
NoAlgorithmSelected ==
  ~(cfg.method = "maml" /\ cfg.algorithm \in {"FSCL", "OML"})

\* C12 (as claimed): a dataset name outside the supported set, or method and
\* algorithm names that select no algorithm, end main with a fatal error
\* before any dataset is loaded and before any episode is processed; and every
\* dataset name the WordData constructor accepts is handled by a branch of
\* setup, none falls through with the datasets left undefined.
C12_UnsupportedNamesFailAtSetup ==
  /\ (cfg.dataset \notin AcceptedDatasets /\ mpc # "WordData") =>
        (mpc = "fatal" /\ datasets = {})
  /\ NoAlgorithmSelected => (datasets = {} /\ mpc # "fitting")
  /\ (cfg.dataset \in AcceptedDatasets /\ branch # "") => branch # "none"

====
